---------------------------- MODULE Spec2Model ----------------------------
(***************************************************************************)
(* Model of the retrieval backend of the document Q&A assistant            *)
(* (rag-backend server): the access-control filter                         *)
(* filterChunksByPermissions, the hybrid search performHybridSearch, and   *)
(* the /api/retrieve, /api/clear-session and /api/conversation handlers    *)
(* working on the in-memory map conversationSessions.                      *)
(*                                                                         *)
(* Seven specifications are given.  SpecFilter applies the access-control   *)
(* filter to bounded candidate lists and user contexts.  SpecRank applies  *)
(* the ranking of performHybridSearch to bounded query results.  SpecCaps  *)
(* records turn after turn in one session, up to its caps.  Spec is the    *)
(* server: requests are split at the awaits between which they use the     *)
(* session store, and interleave on it, all on one session identifier.     *)
(* SpecSessions is the server with requests on two session identifiers,    *)
(* whose queries and audit calls all succeed.  SpecWarm is the server      *)
(* started with a session that earlier turns have stored.  SpecIngest is   *)
(* the handler                                                             *)
(* of POST /api/ingest called with bounded users and documents.            *)
(***************************************************************************)
EXTENDS Integers, Sequences, FiniteSets, TLC

(***************************************************************************)
(* Bounds of the model.                                                    *)
(***************************************************************************)
\* longest candidate list handed to the filter in SpecFilter
MaxChunks == 2
\* number of /api/retrieve requests started in one behaviour of Spec
MaxRequests == 2
\* longest result of the vector and of the full-text query in SpecRank
MaxHits == 2
\* number of turns recorded in one behaviour of SpecCaps
MaxTurns == 25

(***************************************************************************)
(* Values shared by both specifications.                                   *)
(***************************************************************************)
\* req.user = null (optionalAuth without a token); a record so that it
\* compares with user records, no field of it is ever read
NoUser == [id |-> 0, role |-> "null", accessLevel |-> 0, department |-> "null"]
\* users.department is a nullable column
NoDept == "null"

\* String.prototype.toLowerCase on the department strings that occur
toLowerCase(s) ==
    CASE s = "Underwriting" -> "underwriting"
      [] s = "Finance"      -> "finance"
      [] s = "Claims"       -> "claims"
      [] s = "IT"           -> "it"
      [] s = "Sales"        -> "sales"
      [] OTHER              -> s

(***************************************************************************)
(* filterChunksByPermissions                                               *)
(***************************************************************************)
\* const userDept = user.department ? user.department.toLowerCase() : ''
UserDept(user) ==
    IF user.department = NoDept THEN "" ELSE toLowerCase(user.department)

\* mutant: the tag is compared as written, without lower-casing it
DepartmentalAccess_CaseSensitive(departments, userDept) ==
    \E dept \in departments : dept = userDept

\* case 'departmental'
DepartmentalAccess(departments, userDept) ==
    \E dept \in departments : toLowerCase(dept) = userDept

\* mutant: finance-tagged content needs the manager check as well
InternalAccess_FinanceNeedsManager(departments, user, userDept) ==
    LET isManager == user.role = "manager" \/ user.accessLevel >= 2
        isFinance == userDept = "finance"
    IN  \/ "management" \in departments /\ isManager
        \/ "finance" \in departments /\ isFinance /\ isManager

\* mutant: any manager reads internal content, whatever its tags
InternalAccess_AnyManager(departments, user, userDept) ==
    LET isManager == user.role = "manager" \/ user.accessLevel >= 2
        isFinance == userDept = "finance"
    IN  \/ isManager
        \/ "finance" \in departments /\ isFinance

\* case 'internal'
InternalAccess(departments, user, userDept) ==
    LET isManager == user.role = "manager" \/ user.accessLevel >= 2
        isFinance == userDept = "finance"
        hasManagementAccess == "management" \in departments /\ isManager
        hasFinanceAccess == "finance" \in departments /\ isFinance
    IN  hasManagementAccess \/ hasFinanceAccess

\* mutant: the threshold is one level too low
ConfidentialAccess_Level2(user) ==
    user.role = "admin" \/ user.accessLevel >= 2

\* case 'confidential'
ConfidentialAccess(user) ==
    user.role = "admin" \/ user.accessLevel >= 3

\* mutant: the default branch of the switch lets the chunk through
ChunkAllowed_DefaultAllow(chunk, user) ==
    IF user.role = "admin" THEN TRUE
    ELSE CASE chunk.access_level = "public"       -> TRUE
           [] chunk.access_level = "departmental" ->
                  DepartmentalAccess(chunk.departments, UserDept(user))
           [] chunk.access_level = "internal"     ->
                  InternalAccess(chunk.departments, user, UserDept(user))
           [] chunk.access_level = "confidential" -> ConfidentialAccess(user)
           [] OTHER                               -> TRUE

\* the callback of chunks.filter for an authenticated user
ChunkAllowed(chunk, user) ==
    IF user.role = "admin" THEN TRUE
    ELSE CASE chunk.access_level = "public"       -> TRUE
           [] chunk.access_level = "departmental" ->
                  DepartmentalAccess(chunk.departments, UserDept(user))
           [] chunk.access_level = "internal"     ->
                  InternalAccess(chunk.departments, user, UserDept(user))
           [] chunk.access_level = "confidential" -> ConfidentialAccess(user)
           [] OTHER                               -> FALSE

\* mutant: the chunks that pass are returned last first
filterChunksByPermissions_Reversed(chunks, user) ==
    LET passed ==
            IF user = NoUser
            THEN SelectSeq(chunks, LAMBDA chunk : chunk.access_level = "public")
            ELSE SelectSeq(chunks, LAMBDA chunk : ChunkAllowed(chunk, user))
    IN  [k \in DOMAIN passed |-> passed[Len(passed) + 1 - k]]

\* mutant: an anonymous caller is filtered like nobody at all
filterChunksByPermissions_AnonymousAll(chunks, user) ==
    IF user = NoUser
    THEN chunks
    ELSE SelectSeq(chunks, LAMBDA chunk : ChunkAllowed(chunk, user))

filterChunksByPermissions(chunks, user) ==
    IF user = NoUser
    THEN SelectSeq(chunks, LAMBDA chunk : chunk.access_level = "public")
    ELSE SelectSeq(chunks, LAMBDA chunk : ChunkAllowed(chunk, user))

(***************************************************************************)
(* Inputs of SpecFilter.                                                   *)
(***************************************************************************)
\* the four levels the switch of the filter knows
KnownLevels == {"public", "departmental", "internal", "confidential"}
\* chunk.access_level of a chunk stored without that property
NoLevel == "null"
\* access levels a stored chunk may carry
AccessLevels == KnownLevels \cup {NoLevel}

DepartmentTags ==
    { {}, {"underwriting"}, {"Underwriting"}, {"claims"}, {"finance"},
      {"management"}, {"management", "finance"} }

ChunkShapes == [access_level : AccessLevels, departments : DepartmentTags]

Roles == {"admin", "manager", "underwriter"}

UserContexts ==
    {NoUser} \cup
    [id : {1}, role : Roles, accessLevel : 1..3,
     department : {"Underwriting", "finance", "Finance", NoDept}]

\* candidate lists of length n; the identifier of a candidate is its position
ChunkLists(n) ==
    { [i \in 1..n |-> [id |-> i, access_level |-> shape[i].access_level,
                       departments |-> shape[i].departments]] :
        shape \in [1..n -> ChunkShapes] }

VARIABLES
    fChunks,    \* SpecFilter: the candidate list handed to the filter
    fUser,      \* SpecFilter: the user context handed to the filter
    fOut,       \* SpecFilter: the list the filter returned
    fDone       \* SpecFilter: the filter has run

fvars == <<fChunks, fUser, fOut, fDone>>

VARIABLES
    rVector,    \* SpecRank: the rows the vector query returned
    rKeyword,   \* SpecRank: the rows the full-text query returned
    rQuery,     \* SpecRank: the question searched for, an index of Questions
    rUser,      \* SpecRank: the user context of the search
    rOut,       \* SpecRank: the list performHybridSearch returned
    rDone       \* SpecRank: the search has run

rvars == <<rVector, rKeyword, rQuery, rUser, rOut, rDone>>

VARIABLES
    capSession,     \* SpecCaps: the session object
    capTurns,       \* SpecCaps: number of turns recorded in it
    capNextChunk,   \* SpecCaps: number of distinct chunks returned so far
    capNextKeyword, \* SpecCaps: number of distinct keywords asked so far
    capRepeats      \* SpecCaps: number of turns that returned a cached chunk

cvars == <<capSession, capTurns, capNextChunk, capNextKeyword, capRepeats>>

VARIABLES
    documents,  \* SpecIngest: the Document nodes of the knowledge store
    ingestLog   \* SpecIngest: caller and status of the ingest requests so far

ivars == <<documents, ingestLog>>

\* the variables of the specifications of single functions
pvars == <<fvars, rvars, cvars, ivars>>

(***************************************************************************)
(* Texts.  A text is the sequence of its whitespace-separated words; the   *)
(* string operations of the code are given on the words that occur in the  *)
(* questions, the search strings and the stored chunks of the model.       *)
(***************************************************************************)
\* String.prototype.toLowerCase on a word of a question
LowerWord(w) ==
    CASE w = "How"  -> "how"
      [] w = "What" -> "what"
      [] w = "And"  -> "and"
      [] OTHER      -> w

\* replace(/[^\w\s]/g, ' ') followed by split(/\s+/), on one lower-case word
\* of a question: the list of words it leaves
StripPunctuation(w) ==
    CASE w = "total?"  -> <<"total">>
      [] w = "claims?" -> <<"claims">>
      [] OTHER         -> <<w>>

\* pairs <<a, b>> of distinct words of the model where a is a substring of b
ProperSubstrings ==
    { <<"total", "total?">>, <<"claims", "claims?">>,
      <<"donation", "donations">>, <<"charit", "charitable">>,
      <<"donate", "donated">> }

\* b.includes(a) for words
WordIncludes(b, a) == a = b \/ <<a, b>> \in ProperSubstrings

\* text.includes(word) for a text given as its sequence of words
TextIncludes(text, word) == \E i \in DOMAIN text : WordIncludes(text[i], word)

\* text.includes(phrase): the words of the phrase occur next to each other
TextIncludesPhrase(text, phrase) ==
    /\ Len(phrase) > 0
    /\ \E k \in 0..(Len(text) - Len(phrase)) :
           \A i \in DOMAIN phrase : text[k + i] = phrase[i]

RECURSIVE Flatten(_)
Flatten(seqs) ==
    IF seqs = <<>> THEN <<>> ELSE Head(seqs) \o Flatten(Tail(seqs))

RECURSIVE SumLen(_)
SumLen(words) ==
    IF words = <<>> THEN 0 ELSE Len(Head(words)) + SumLen(Tail(words))

\* length of the string whose words are joined by single blanks
StringLength(words) ==
    IF words = <<>> THEN 0 ELSE SumLen(words) + Len(words) - 1

\* question.toLowerCase().trim()
QuestionLower(question) == [i \in DOMAIN question |-> LowerWord(question[i])]

\* the questions asked in the model
QDonate == <<"How", "much", "did", "the", "foundation", "donate", "in", "total?">>
QClaims == <<"What", "about", "claims?">>
Questions == <<QDonate, QClaims>>

(***************************************************************************)
(* The knowledge store.  Each chunk has its text, its access level and its *)
(* department tags, and what the regular expressions of performHybridSearch*)
(* find in its text.                                                       *)
(***************************************************************************)
ChunkIds == {"c1", "c2", "c3", "c4", "c5"}

KB ==
    [id \in ChunkIds |->
        CASE id = "c1" ->
               [text |-> <<"the", "foundation", "provided", "about", "$2.5",
                           "million", "in", "charitable", "support">>,
                access_level |-> "public", departments |-> {"all"},
                monetaryMatches |-> 3, charity |-> TRUE, decade |-> FALSE]
          [] id = "c2" ->
               [text |-> <<"travelers", "offers", "casualty", "insurance",
                           "policies">>,
                access_level |-> "public", departments |-> {"all"},
                monetaryMatches |-> 0, charity |-> FALSE, decade |-> FALSE]
          [] id = "c3" ->
               [text |-> <<"underwriting", "risk", "guidelines", "about",
                           "claims">>,
                access_level |-> "departmental", departments |-> {"underwriting"},
                monetaryMatches |-> 0, charity |-> FALSE, decade |-> FALSE]
          [] id = "c4" ->
               [text |-> <<"financial", "revenue", "over", "the", "past",
                           "year">>,
                access_level |-> "internal",
                departments |-> {"management", "finance"},
                monetaryMatches |-> 0, charity |-> FALSE, decade |-> TRUE]
          [] OTHER ->
               [text |-> <<"confidential", "executive", "memo", "about",
                           "donations">>,
                access_level |-> "confidential", departments |-> {"executive"},
                monetaryMatches |-> 0, charity |-> FALSE, decade |-> FALSE] ]

\* chunk.text of a candidate
ChunkText(chunk) == KB[chunk.id].text

\* scores are kept as integers, in millionths
ScoreUnit == 1000000
\* a candidate without the field finalScore (chunk.finalScore is undefined)
NoFinalScore == -1

\* the record performHybridSearch builds from one row of a query result
Candidate(hit, searchType) ==
    [id |-> hit.id, access_level |-> KB[hit.id].access_level,
     departments |-> KB[hit.id].departments, score |-> hit.score,
     searchType |-> searchType, finalScore |-> NoFinalScore]

Hit(id, tenths) == [id |-> id, score |-> tenths * (ScoreUnit \div 10)]

(***************************************************************************)
(* preprocessQuery and performHybridSearch                                 *)
(***************************************************************************)
\* the alternatives of the regular expression isMonetaryQuestion that are
\* single words
MonetaryTerms ==
    {"total", "cost", "price", "money", "dollars", "million", "billion", "$",
     "donate", "donated", "donation", "charitable", "charity"}

\* /how much|how many|...|charity/.test(questionLower)
IsMonetaryQuestion(query) ==
    LET lower == QuestionLower(query)
    IN  \/ \E i \in DOMAIN lower : \E term \in MonetaryTerms :
               WordIncludes(lower[i], term)
        \/ \E i \in 1..(Len(lower) - 1) :
               lower[i] = "how" /\ lower[i + 1] \in {"much", "many"}

\* the names of the regular expression entities.people
PersonNames == {"freeman", "batterson", "fishman", "bolter", "schnitzer", "caputo"}

\* preprocessQuery(question).entities.people; the questions of the model
\* name no month, so entities.dates is empty
EntitiesPeople(query) ==
    SelectSeq(QuestionLower(query), LAMBDA w : w \in PersonNames)

\* queryInfo.originalQuery.toLowerCase().replace(/[^\w\s]/g, '')
QueryPhrase(query) ==
    Flatten([i \in DOMAIN query |-> StripPunctuation(LowerWord(query[i]))])

Max(a, b) == IF a >= b THEN a ELSE b
Min(a, b) == IF a <= b THEN a ELSE b

\* score * (tenths / 10)
Times(score, tenths) == (score * tenths) \div 10

\* slice(0, n)
Take(seq, n) == SubSeq(seq, 1, Min(n, Len(seq)))
\* slice(-n)
TakeLast(seq, n) == SubSeq(seq, Max(1, Len(seq) - n + 1), Len(seq))

\* Array.prototype.sort with a comparator b.key - a.key: descending and stable
StableSortDesc(seq, key) ==
    LET rank(i) == 1 + Cardinality({ j \in DOMAIN seq :
                         key[j] > key[i] \/ (key[j] = key[i] /\ j < i) })
    IN  [p \in DOMAIN seq |-> seq[CHOOSE i \in DOMAIN seq : rank(i) = p]]

\* mutant: a candidate found by both paths is kept twice
UniqueResults_NoMerge(allResults) == allResults

\* step 3: combine results and remove duplicates (the Map uniqueResults)
RECURSIVE UniqueResults(_)
UniqueResults(allResults) ==
    IF allResults = <<>> THEN <<>>
    ELSE LET n == Len(allResults)
             acc == UniqueResults(SubSeq(allResults, 1, n - 1))
             result == allResults[n]
         IN  IF \E k \in DOMAIN acc : acc[k].id = result.id
             THEN LET k == CHOOSE k \in DOMAIN acc : acc[k].id = result.id
                  IN  [acc EXCEPT
                         ![k].score = Max(acc[k].score, result.score),
                         ![k].searchType = acc[k].searchType \o "+" \o result.searchType]
             ELSE Append(acc, result)

\* result.searchType.includes('+')
IsHybrid(searchType) ==
    searchType \notin {"vector", "keyword", "vector_fallback", "previous_context"}

RECURSIVE PeopleBoost(_, _, _)
PeopleBoost(score, people, text) ==
    IF people = <<>> THEN score
    ELSE PeopleBoost(IF TextIncludes(text, Head(people))
                     THEN Times(score, 12) ELSE score,
                     Tail(people), text)

\* mutant: a candidate found by both paths is scaled by 0.4, not by 1.4
BoostedScore_HybridPenalty(result, query, isMonetaryQuestion) ==
    LET chunk == KB[result.id]
        s0 == result.score
        s1 == IF isMonetaryQuestion /\ chunk.monetaryMatches > 0
              THEN s0 * (2 + chunk.monetaryMatches) ELSE s0
        s2 == IF isMonetaryQuestion /\ chunk.charity THEN Times(s1, 15) ELSE s1
        s3 == IF /\ isMonetaryQuestion
                 /\ \E i \in DOMAIN query :
                        WordIncludes(LowerWord(query[i]), "total")
                 /\ chunk.decade
              THEN Times(s2, 13) ELSE s2
        s4 == IF TextIncludesPhrase(chunk.text, QueryPhrase(query))
              THEN Times(s3, 12) ELSE s3
        s5 == PeopleBoost(s4, EntitiesPeople(query), chunk.text)
    IN  IF IsHybrid(result.searchType) THEN Times(s5, 4) ELSE s5

\* mutant: the monetary patterns give no boost
BoostedScore_NoMonetaryBoost(result, query, isMonetaryQuestion) ==
    LET chunk == KB[result.id]
        s1 == result.score
        s2 == IF isMonetaryQuestion /\ chunk.charity THEN Times(s1, 15) ELSE s1
        s3 == IF /\ isMonetaryQuestion
                 /\ \E i \in DOMAIN query :
                        WordIncludes(LowerWord(query[i]), "total")
                 /\ chunk.decade
              THEN Times(s2, 13) ELSE s2
        s4 == IF TextIncludesPhrase(chunk.text, QueryPhrase(query))
              THEN Times(s3, 12) ELSE s3
        s5 == PeopleBoost(s4, EntitiesPeople(query), chunk.text)
    IN  IF IsHybrid(result.searchType) THEN Times(s5, 14) ELSE s5

\* step 4: the boosted score of one merged candidate
BoostedScore(result, query, isMonetaryQuestion) ==
    LET chunk == KB[result.id]
        s0 == result.score
        s1 == IF isMonetaryQuestion /\ chunk.monetaryMatches > 0
              THEN s0 * (2 + chunk.monetaryMatches) ELSE s0
        s2 == IF isMonetaryQuestion /\ chunk.charity THEN Times(s1, 15) ELSE s1
        s3 == IF /\ isMonetaryQuestion
                 /\ \E i \in DOMAIN query :
                        WordIncludes(LowerWord(query[i]), "total")
                 /\ chunk.decade
              THEN Times(s2, 13) ELSE s2
        s4 == IF TextIncludesPhrase(chunk.text, QueryPhrase(query))
              THEN Times(s3, 12) ELSE s3
        s5 == PeopleBoost(s4, EntitiesPeople(query), chunk.text)
    IN  IF IsHybrid(result.searchType) THEN Times(s5, 14) ELSE s5

\* number of candidates performHybridSearch returns at most
SearchTopK == 5

\* mutant: the ranked candidates are not filtered by permissions
HybridResults_Unfiltered(vectorHits, keywordHits, query, user) ==
    LET allResults ==
            [i \in DOMAIN vectorHits |-> Candidate(vectorHits[i], "vector")] \o
            [i \in DOMAIN keywordHits |-> Candidate(keywordHits[i], "keyword")]
        unique == UniqueResults(allResults)
        rankedResults ==
            [i \in DOMAIN unique |->
                [unique[i] EXCEPT !.finalScore =
                    BoostedScore(unique[i], query, IsMonetaryQuestion(query))]]
    IN  Take(StableSortDesc(rankedResults,
                 [i \in DOMAIN rankedResults |-> rankedResults[i].finalScore]),
             SearchTopK)

\* performHybridSearch when the vector query succeeded: steps 3 to 6
HybridResults(vectorHits, keywordHits, query, user) ==
    LET allResults ==
            [i \in DOMAIN vectorHits |-> Candidate(vectorHits[i], "vector")] \o
            [i \in DOMAIN keywordHits |-> Candidate(keywordHits[i], "keyword")]
        unique == UniqueResults(allResults)
        rankedResults ==
            [i \in DOMAIN unique |->
                [unique[i] EXCEPT !.finalScore =
                    BoostedScore(unique[i], query, IsMonetaryQuestion(query))]]
        permissionFilteredResults == filterChunksByPermissions(rankedResults, user)
    IN  Take(StableSortDesc(permissionFilteredResults,
                 [i \in DOMAIN permissionFilteredResults |->
                     permissionFilteredResults[i].finalScore]),
             SearchTopK)

\* mutant: the fallback results are returned as the store gave them
FallbackResults_Unfiltered(fallbackHits, user) ==
    [i \in DOMAIN fallbackHits |-> Candidate(fallbackHits[i], "vector_fallback")]

\* performHybridSearch when the vector query failed: the catch branch
FallbackResults(fallbackHits, user) ==
    filterChunksByPermissions(
        [i \in DOMAIN fallbackHits |-> Candidate(fallbackHits[i], "vector_fallback")],
        user)

(***************************************************************************)
(* The session store and the request handlers.                             *)
(***************************************************************************)
\* session identifiers sent by clients
SessionIds == {"s1", "s2"}
\* the session identifier the requests of Spec are sent with
SingleSession == {"s1"}

\* the callers: nobody, the administrator, an underwriter
Admin == [id |-> 1, role |-> "admin", accessLevel |-> 3, department |-> "IT"]
Mike == [id |-> 4, role |-> "underwriter", accessLevel |-> 2,
         department |-> "Underwriting"]
Callers == {NoUser, Admin, Mike}

\* sessionData.userId = null
NoOwner == 0

\* requests handled at the same time
Slots == {1, 2}

\* session objects; conversationSessions holds references to them
ObjIds == 1..(Cardinality(SessionIds) + Cardinality(Slots))
NoObj == 0

\* { history: [], previousChunks: new Map(), topicKeywords: new Set(), userId }
FreshSession(userId) ==
    [history |-> <<>>, previousChunks |-> <<>>, topicKeywords |-> <<>>,
     userId |-> userId]

\* caps of the stored session
HistoryCap == 20
PreviousChunksCap == 50
TopicKeywordsCap == 20
\* previous chunks merged into one result
MaxPreviousChunks == 2
\* chunks handed to the answer generator and returned
ContextTopK == 5
\* a question shorter than this is a follow-up when there is history
FollowUpLength == 20
\* recent topics looked at for the expansion, and topics appended
RecentTopics == 10
ExpansionTopics == 3

\* what the knowledge store may answer to the vector query
VectorOutcomes ==
    { <<Hit("c5", 10), Hit("c4", 8), Hit("c3", 7), Hit("c1", 6), Hit("c2", 5)>>,
      <<Hit("c4", 8), Hit("c5", 8)>> }
\* what it may answer to the full-text query
KeywordOutcomes == { <<Hit("c3", 9), Hit("c1", 7)>> }
\* what it may answer to the fallback vector query
FallbackOutcomes == { <<Hit("c5", 6), Hit("c2", 5)>> }

VARIABLES
    store,      \* conversationSessions: session identifier -> object or NoObj
    heap,       \* the session objects
    reqs,       \* the requests being handled, one per slot
    started     \* number of requests received so far

vars == <<store, heap, reqs, started, pvars>>
svars == <<store, heap, reqs, started>>

\* clearedSince is a history field: the session of the request was cleared
\* while the request was being handled, and no retrieve on that session has
\* arrived since
IdleRequest ==
    [pc |-> "idle", op |-> "none", user |-> NoUser, sid |-> "s1", question |-> 0,
     obj |-> NoObj, isFollowUp |-> FALSE, searchQuery |-> <<>>,
     retrievedChunks |-> <<>>, combinedChunks |-> <<>>, topChunks |-> <<>>,
     model |-> "none", status |-> 0, body |-> FreshSession(NoOwner),
     clearedSince |-> FALSE]

\* the requests after request i became r, with clearedSince set to cleared
\* in the retrieves in progress on session sid
Arrived(i, r, sid, cleared) ==
    [k \in Slots |->
        IF k = i THEN r
        ELSE IF reqs[k].pc \in {"search", "generate"} /\ reqs[k].sid = sid
        THEN [reqs[k] EXCEPT !.clearedSince = cleared]
        ELSE reqs[k]]

\* the session objects the map or a request in progress still refers to
Referenced(st, rq) ==
    { st[sid] : sid \in SessionIds } \cup
    { rq[i].obj : i \in { k \in Slots : rq[k].pc \notin {"idle", "done"} } }

\* objects no longer referenced are reclaimed
Collect(hp, st, rq) ==
    [o \in ObjIds |-> IF o \in Referenced(st, rq) THEN hp[o]
                      ELSE FreshSession(NoOwner)]

\* mutant: the check compares nothing
OwnershipConflict_Never(user, sessionData) == FALSE

\* mutant: a caller without a user context is refused on an owned session
OwnershipConflict_AnonymousToo(user, sessionData) ==
    /\ sessionData.userId # NoOwner
    /\ user = NoUser \/ sessionData.userId # user.id

\* the ownership check shared by the three handlers
OwnershipConflict(user, sessionData) ==
    /\ user # NoUser
    /\ sessionData.userId # NoOwner
    /\ sessionData.userId # user.id

\* words never recorded as topic keywords
KeywordStopList == {"what", "when", "where", "why", "how", "does", "did", "the"}

\* the keywords of a question recorded for topic tracking
QuestionKeywords(question) ==
    SelectSeq(Flatten([i \in DOMAIN question |->
                          StripPunctuation(LowerWord(question[i]))]),
              LAMBDA word : Len(word) > 3 /\ word \notin KeywordStopList)

\* Set.prototype.add on a set kept in insertion order
SetAdd(set, x) ==
    IF \E k \in DOMAIN set : set[k] = x THEN set ELSE Append(set, x)

RECURSIVE SetAddAll(_, _)
SetAddAll(set, xs) ==
    IF xs = <<>> THEN set ELSE SetAddAll(SetAdd(set, Head(xs)), Tail(xs))

\* mutant: setting a key that is present moves it to the end
MapSet_MovesToEnd(map, chunk) ==
    Append(SelectSeq(map, LAMBDA c : c.id # chunk.id), chunk)

\* Map.prototype.set(chunk.id, chunk) on a map kept in insertion order
MapSet(map, chunk) ==
    IF \E k \in DOMAIN map : map[k].id = chunk.id
    THEN [map EXCEPT ![CHOOSE k \in DOMAIN map : map[k].id = chunk.id] = chunk]
    ELSE Append(map, chunk)

RECURSIVE MapSetAll(_, _)
MapSetAll(map, chunks) ==
    IF chunks = <<>> THEN map
    ELSE MapSetAll(MapSet(map, Head(chunks)), Tail(chunks))

\* questionLower.length < 20 && sessionData.history.length > 0
IsFollowUp(question, sessionData) ==
    /\ StringLength(QuestionLower(question)) < FollowUpLength
    /\ Len(sessionData.history) > 0

\* the search string of a follow-up question
ExpandQuery(question, sessionData) ==
    LET questionLower == QuestionLower(question)
        recentTopics == TakeLast(sessionData.topicKeywords, RecentTopics)
        Mentions(word) ==
            \E i \in DOMAIN questionLower : WordIncludes(questionLower[i], word)
        TopicMentions(word) ==
            \E i \in DOMAIN recentTopics : WordIncludes(recentTopics[i], word)
    IN  IF Mentions("total") \/ Mentions("overall")
        THEN IF TopicMentions("charity") \/ TopicMentions("donation")
             THEN <<"charitable", "donations", "total", "decade", "years",
                    "combined", "philanthropic", "giving", "community",
                    "support", "overall">>
             ELSE IF TopicMentions("insurance")
             THEN <<"insurance", "total", "coverage", "policies">> \o
                  SelectSeq(recentTopics, LAMBDA t : WordIncludes(t, "insurance"))
             ELSE <<"total", "overall">> \o Take(recentTopics, ExpansionTopics)
                  \o <<"combined">>
        ELSE question \o Take(recentTopics, ExpansionTopics)

\* chunk.finalScore || chunk.score || 0
ScoreOrZero(chunk) ==
    IF chunk.finalScore \notin {NoFinalScore, 0} THEN chunk.finalScore
    ELSE chunk.score

\* mutant: every cached chunk that contains a word of the question is taken
RelevantPrevious_All(question, sessionData) ==
    LET questionWords ==
            SelectSeq(QuestionLower(question), LAMBDA w : Len(w) > 3)
    IN  SelectSeq(sessionData.previousChunks,
            LAMBDA chunk : \E i \in DOMAIN questionWords :
                TextIncludes(ChunkText(chunk), questionWords[i]))

\* the cached chunks whose text contains a word of the question longer than
\* three characters, at most two of them
RelevantPrevious(question, sessionData) ==
    LET questionWords ==
            SelectSeq(QuestionLower(question), LAMBDA w : Len(w) > 3)
    IN  Take(SelectSeq(sessionData.previousChunks,
                 LAMBDA chunk : \E i \in DOMAIN questionWords :
                     TextIncludes(ChunkText(chunk), questionWords[i])),
             MaxPreviousChunks)

\* the copy of a cached chunk that is appended to the result
AsPreviousContext(chunk) ==
    [chunk EXCEPT !.searchType = "previous_context",
                  !.finalScore = Times(ScoreOrZero(chunk), 8)]

\* mutant: the cached chunks are merged without the permission filter
PreviousContext_Unfiltered(isFollowUp, question, sessionData, user) ==
    IF isFollowUp /\ Len(sessionData.previousChunks) > 0
    THEN LET relevantPrevious == RelevantPrevious(question, sessionData)
         IN  [i \in DOMAIN relevantPrevious |->
                 AsPreviousContext(relevantPrevious[i])]
    ELSE <<>>

\* the chunks pushed onto combinedChunks for a follow-up
PreviousContext(isFollowUp, question, sessionData, user) ==
    IF isFollowUp /\ Len(sessionData.previousChunks) > 0
    THEN LET filteredPrevious ==
                 filterChunksByPermissions(
                     RelevantPrevious(question, sessionData), user)
         IN  [i \in DOMAIN filteredPrevious |->
                 AsPreviousContext(filteredPrevious[i])]
    ELSE <<>>

\* mutant: of two chunks with the same score the later one comes first
SortCombined_TiesReversed(combinedChunks) ==
    LET n == Len(combinedChunks)
        reversed == [k \in 1..n |-> combinedChunks[n + 1 - k]]
    IN  StableSortDesc(reversed, [k \in 1..n |-> ScoreOrZero(reversed[k])])

\* combinedChunks.sort(...) on the combined list
SortCombined(combinedChunks) ==
    StableSortDesc(combinedChunks,
        [i \in DOMAIN combinedChunks |-> ScoreOrZero(combinedChunks[i])])

\* mutant: the combined list is returned whole
TopChunks_NoSlice(combinedChunks) == SortCombined(combinedChunks)

\* const topChunks = combinedChunks.slice(0, 5), after the sort
TopChunks(combinedChunks) == Take(SortCombined(combinedChunks), ContextTopK)

\* mutant: the history keeps its first 20 entries, not its last
RecordTurn_KeepsOldest(sessionData, question, model, topChunks, user) ==
    LET history == sessionData.history \o
                   << [sender |-> "user", question |-> question],
                      [sender |-> "bot", question |-> question] >>
        previousChunks == MapSetAll(sessionData.previousChunks, topChunks)
    IN  [history |-> Take(history, HistoryCap),
         previousChunks |->
             IF Len(previousChunks) > PreviousChunksCap
             THEN TakeLast(previousChunks, PreviousChunksCap) ELSE previousChunks,
         topicKeywords |->
             IF Len(sessionData.topicKeywords) > TopicKeywordsCap
             THEN TakeLast(sessionData.topicKeywords, TopicKeywordsCap)
             ELSE sessionData.topicKeywords,
         userId |-> IF user # NoUser THEN user.id ELSE sessionData.userId]

\* the session object after a turn has been recorded
RecordTurn(sessionData, question, model, topChunks, user) ==
    LET history == sessionData.history \o
                   << [sender |-> "user", question |-> question],
                      [sender |-> "bot", question |-> question] >>
        previousChunks == MapSetAll(sessionData.previousChunks, topChunks)
    IN  [history |-> TakeLast(history, HistoryCap),
         previousChunks |->
             IF Len(previousChunks) > PreviousChunksCap
             THEN TakeLast(previousChunks, PreviousChunksCap) ELSE previousChunks,
         topicKeywords |->
             IF Len(sessionData.topicKeywords) > TopicKeywordsCap
             THEN TakeLast(sessionData.topicKeywords, TopicKeywordsCap)
             ELSE sessionData.topicKeywords,
         userId |-> IF user # NoUser THEN user.id ELSE sessionData.userId]

(***************************************************************************)
(* POST /api/retrieve, split at its awaits.                                *)
(***************************************************************************)
\* the free session object a new session is created in
NewObj ==
    LET free == ObjIds \ Referenced(store, reqs)
    IN  CHOOSE o \in free : \A p \in free : o <= p

\* the request has ended: its slot keeps the status of the response, the
\* model that wrote the answer and, for a conversation read, the body
Finished(r, status) ==
    [IdleRequest EXCEPT !.pc = "done", !.op = r.op, !.model = r.model,
                        !.body = r.body, !.status = status]

\* a request is taken by the first slot that is not handling one
SlotFree(i) ==
    /\ reqs[i].pc \in {"idle", "done"}
    /\ \A k \in Slots : k < i => reqs[k].pc \notin {"idle", "done"}
    /\ started < MaxRequests

\* from the arrival of the request to the first query of performHybridSearch
RetrieveStart(i, user, sid, q) ==
    /\ SlotFree(i)
    /\ started' = started + 1
    /\ LET existing == store[sid] # NoObj
           obj == IF existing THEN store[sid] ELSE NewObj
           sessionData ==
               IF existing THEN heap[obj]
               ELSE FreshSession(IF user # NoUser THEN user.id ELSE NoOwner)
           question == Questions[q]
           isFollowUp == IsFollowUp(question, sessionData)
           request == [IdleRequest EXCEPT !.op = "retrieve", !.user = user,
                                          !.sid = sid, !.question = q]
       IN  IF OwnershipConflict(user, sessionData)
           THEN /\ reqs' = Arrived(i, Finished(request, 403), sid, FALSE)
                /\ UNCHANGED <<store, heap>>
           ELSE /\ reqs' = Arrived(i,
                       [request EXCEPT
                           !.pc = "search", !.obj = obj,
                           !.isFollowUp = isFollowUp,
                           !.searchQuery =
                               IF isFollowUp THEN ExpandQuery(question, sessionData)
                               ELSE question],
                       sid, FALSE)
                /\ heap' = [heap EXCEPT ![obj] = sessionData]
                /\ UNCHANGED store
    /\ UNCHANGED pvars

\* from the return of performHybridSearch to the call of generateResponse
AfterSearch(i, retrievedChunks) ==
    LET r == reqs[i]
        question == Questions[r.question]
        sessionData == heap[r.obj]
        combinedChunks ==
            retrievedChunks \o
            PreviousContext(r.isFollowUp, question, sessionData, r.user)
    IN  /\ reqs' = [reqs EXCEPT ![i] =
               [r EXCEPT !.pc = "generate",
                         !.retrievedChunks = retrievedChunks,
                         !.combinedChunks = combinedChunks,
                         !.topChunks = TopChunks(combinedChunks)]]
        /\ heap' = [heap EXCEPT ![r.obj].topicKeywords =
                       SetAddAll(@, QuestionKeywords(question))]
        /\ UNCHANGED <<store, started, pvars>>

\* mutant: a failure of the full-text query is not caught where it is
\* raised and ends the request in the catch of the handler
SearchHybrid_KeywordFatal(i, vectorHits, keywordHits, keywordFailed) ==
    /\ reqs[i].pc = "search"
    /\ IF keywordFailed
       THEN /\ reqs' = [reqs EXCEPT ![i] = Finished(reqs[i], 500)]
            /\ heap' = Collect(heap, store, reqs')
            /\ UNCHANGED <<store, started, pvars>>
       ELSE AfterSearch(i, HybridResults(vectorHits, keywordHits,
                                reqs[i].searchQuery, reqs[i].user))

\* the vector query answered; the full-text query answered or failed
SearchHybrid(i, vectorHits, keywordHits, keywordFailed) ==
    /\ reqs[i].pc = "search"
    /\ AfterSearch(i, HybridResults(vectorHits,
                          IF keywordFailed THEN <<>> ELSE keywordHits,
                          reqs[i].searchQuery, reqs[i].user))

\* the vector query failed, the fallback query answered
SearchFallback(i, fallbackHits) ==
    /\ reqs[i].pc = "search"
    /\ AfterSearch(i, FallbackResults(fallbackHits, reqs[i].user))

\* the status sent after the try block failed: the catch awaits
\* authDb.logAudit(QUERY_ERROR) for an authenticated user and then answers
\* 500; if that call throws as well, no response is sent
CatchStatus(user, errorAuditOk) ==
    IF user = NoUser \/ errorAuditOk THEN 500 ELSE 0

\* the vector query and the fallback query failed: the catch of the handler
SearchFailed(i, errorAuditOk) ==
    /\ reqs[i].pc = "search"
    /\ reqs' = [reqs EXCEPT ![i] =
           Finished(reqs[i], CatchStatus(reqs[i].user, errorAuditOk))]
    /\ heap' = Collect(heap, store, reqs')
    /\ UNCHANGED <<store, started, pvars>>

\* mutant: the turn is recorded in the session that is stored when the
\* generator returns, and that session stays the stored one
GenerateDone_IntoStored(i, aiOk, auditOk, errorAuditOk) ==
    /\ reqs[i].pc = "generate"
    /\ LET r == reqs[i]
           obj == IF store[r.sid] # NoObj THEN store[r.sid] ELSE r.obj
           model == IF Len(r.topChunks) = 0 THEN "fallback"
                    ELSE IF aiOk THEN "ai" ELSE "mock-fallback"
           recorded == [heap EXCEPT ![obj] =
                           RecordTurn(heap[obj], r.question, model,
                                      r.topChunks, r.user)]
       IN  /\ store' = [store EXCEPT ![r.sid] = obj]
           /\ reqs' = [reqs EXCEPT ![i] =
                  Finished([r EXCEPT !.model = model],
                           IF r.user = NoUser \/ auditOk THEN 200
                           ELSE CatchStatus(r.user, errorAuditOk))]
           /\ heap' = Collect(recorded, store', reqs')
    /\ UNCHANGED <<started, pvars>>

\* generateResponse returned: the turn is recorded, the session is stored,
\* the query is audited for an authenticated user and the response is sent.
\* The awaits of logAudit come after the last access to the session store
\* and are part of this step.
GenerateDone(i, aiOk, auditOk, errorAuditOk) ==
    /\ reqs[i].pc = "generate"
    /\ LET r == reqs[i]
           model == IF Len(r.topChunks) = 0 THEN "fallback"
                    ELSE IF aiOk THEN "ai" ELSE "mock-fallback"
           recorded == [heap EXCEPT ![r.obj] =
                           RecordTurn(heap[r.obj], r.question, model,
                                      r.topChunks, r.user)]
       IN  /\ store' = [store EXCEPT ![r.sid] = r.obj]
           /\ reqs' = [reqs EXCEPT ![i] =
                  Finished([r EXCEPT !.model = model],
                           IF r.user = NoUser \/ auditOk THEN 200
                           ELSE CatchStatus(r.user, errorAuditOk))]
           /\ heap' = Collect(recorded, store', reqs')
    /\ UNCHANGED <<started, pvars>>

(***************************************************************************)
(* POST /api/clear-session and GET /api/conversation/:sessionId            *)
(***************************************************************************)
\* mutant: the handler empties the whole map
ClearSession_ClearsAll(i, user, sid) ==
    /\ SlotFree(i)
    /\ started' = started + 1
    /\ LET request == [IdleRequest EXCEPT !.op = "clear", !.user = user,
                                          !.sid = sid]
       IN  IF store[sid] # NoObj /\ OwnershipConflict(user, heap[store[sid]])
           THEN /\ reqs' = [reqs EXCEPT ![i] = Finished(request, 403)]
                /\ UNCHANGED <<store, heap>>
           ELSE /\ reqs' = Arrived(i, Finished(request, 200), sid, TRUE)
                /\ store' = [s \in SessionIds |-> NoObj]
                /\ heap' = Collect(heap, store', reqs')
    /\ UNCHANGED pvars

ClearSession(i, user, sid) ==
    /\ SlotFree(i)
    /\ started' = started + 1
    /\ LET request == [IdleRequest EXCEPT !.op = "clear", !.user = user,
                                          !.sid = sid]
       IN  IF store[sid] # NoObj /\ OwnershipConflict(user, heap[store[sid]])
           THEN /\ reqs' = [reqs EXCEPT ![i] = Finished(request, 403)]
                /\ UNCHANGED <<store, heap>>
           ELSE /\ reqs' = Arrived(i, Finished(request, 200), sid, TRUE)
                /\ store' = [store EXCEPT ![sid] = NoObj]
                /\ heap' = Collect(heap, store', reqs')
    /\ UNCHANGED pvars

ReadConversation(i, user, sid) ==
    /\ SlotFree(i)
    /\ started' = started + 1
    /\ LET request == [IdleRequest EXCEPT !.op = "read", !.user = user,
                                          !.sid = sid]
           sessionData == IF store[sid] # NoObj THEN heap[store[sid]]
                          ELSE FreshSession(NoOwner)
       IN  reqs' = [reqs EXCEPT ![i] =
               IF OwnershipConflict(user, sessionData)
               THEN Finished(request, 403)
               ELSE Finished([request EXCEPT !.body = sessionData], 200)]
    /\ UNCHANGED <<store, heap, pvars>>

ServerInit ==
    /\ store = [sid \in SessionIds |-> NoObj]
    /\ heap = [o \in ObjIds |-> FreshSession(NoOwner)]
    /\ reqs = [i \in Slots |-> IdleRequest]
    /\ started = 0

\* the variables of SpecFilter, SpecRank, SpecCaps and SpecIngest when they
\* are not used
IngestIdle == documents = <<>> /\ ingestLog = <<>>
FilterIdle == fChunks = <<>> /\ fUser = NoUser /\ fOut = <<>> /\ fDone = TRUE
RankIdle ==
    /\ rVector = <<>> /\ rKeyword = <<>> /\ rQuery = 1 /\ rUser = NoUser
    /\ rOut = <<>> /\ rDone = TRUE
CapsIdle ==
    /\ capSession = FreshSession(NoOwner) /\ capTurns = 0
    /\ capNextChunk = 0 /\ capNextKeyword = 0 /\ capRepeats = 0

Init ==
    /\ ServerInit
    /\ FilterIdle /\ RankIdle /\ CapsIdle /\ IngestIdle

Next ==
    \E i \in Slots :
        \/ \E user \in Callers, sid \in SingleSession, q \in DOMAIN Questions :
               RetrieveStart(i, user, sid, q)
        \/ \E vectorHits \in VectorOutcomes, keywordHits \in KeywordOutcomes,
              keywordFailed \in BOOLEAN :
               SearchHybrid(i, vectorHits, keywordHits, keywordFailed)
        \/ \E fallbackHits \in FallbackOutcomes : SearchFallback(i, fallbackHits)
        \/ \E errorAuditOk \in BOOLEAN : SearchFailed(i, errorAuditOk)
        \/ \E aiOk \in BOOLEAN, auditOk \in BOOLEAN :
               \* the catch audits only after the first audit call failed
               \E errorAuditOk \in (IF auditOk THEN {TRUE} ELSE BOOLEAN) :
                   GenerateDone(i, aiOk, auditOk, errorAuditOk)
        \/ \E user \in Callers, sid \in SingleSession : ClearSession(i, user, sid)
        \/ \E user \in Callers, sid \in SingleSession :
               ReadConversation(i, user, sid)

Spec == Init /\ [][Next]_vars

(***************************************************************************)
(* SpecSessions: the handlers on two session identifiers.  The vector and  *)
(* the full-text query, the answer generator and the audit sink answer.    *)
(***************************************************************************)
SessionsNext ==
    \E i \in Slots :
        \/ \E user \in Callers, sid \in SessionIds, q \in DOMAIN Questions :
               RetrieveStart(i, user, sid, q)
        \/ \E vectorHits \in VectorOutcomes, keywordHits \in KeywordOutcomes :
               SearchHybrid(i, vectorHits, keywordHits, FALSE)
        \/ GenerateDone(i, TRUE, TRUE, TRUE)
        \/ \E user \in Callers, sid \in SessionIds : ClearSession(i, user, sid)
        \/ \E user \in Callers, sid \in SessionIds :
               ReadConversation(i, user, sid)

SpecSessions == Init /\ [][SessionsNext]_vars

(***************************************************************************)
(* SpecFilter: one call of the access-control filter on bounded inputs.    *)
(***************************************************************************)
FilterInit ==
    /\ ServerInit /\ RankIdle /\ CapsIdle /\ IngestIdle
    /\ fChunks \in UNION { ChunkLists(n) : n \in 0..MaxChunks }
    /\ fUser \in UserContexts
    /\ fOut = <<>>
    /\ fDone = FALSE

\* one call filterChunksByPermissions(chunks, user)
Filter ==
    /\ ~fDone
    /\ fOut' = filterChunksByPermissions(fChunks, fUser)
    /\ fDone' = TRUE
    /\ UNCHANGED <<fChunks, fUser, svars, rvars, cvars, ivars>>

SpecFilter == FilterInit /\ [][Filter]_vars

(***************************************************************************)
(* SpecRank: one call of performHybridSearch whose vector query succeeded, *)
(* on bounded results of the two queries.                                  *)
(***************************************************************************)
\* raw scores of the rows, in tenths
RankScores == {1, 9}

\* results of n rows: a chunk occurs once, ORDER BY score DESC
HitLists(n) ==
    { [k \in 1..n |-> Hit(rows[k].id, rows[k].tenths)] :
        rows \in { r \in [1..n -> [id : ChunkIds, tenths : RankScores]] :
                     /\ \A a, b \in 1..n : a # b => r[a].id # r[b].id
                     /\ \A a \in 1..(n - 1) : r[a].tenths >= r[a + 1].tenths } }

RankInit ==
    /\ ServerInit /\ FilterIdle /\ CapsIdle /\ IngestIdle
    /\ rVector \in UNION { HitLists(n) : n \in 0..MaxHits }
    /\ rKeyword \in UNION { HitLists(n) : n \in 0..MaxHits }
    /\ rQuery \in DOMAIN Questions
    /\ rUser \in {NoUser, Admin}
    /\ rOut = <<>>
    /\ rDone = FALSE

\* one call performHybridSearch(query, session, user)
Rank ==
    /\ ~rDone
    /\ rOut' = HybridResults(rVector, rKeyword, Questions[rQuery], rUser)
    /\ rDone' = TRUE
    /\ UNCHANGED <<rVector, rKeyword, rQuery, rUser, svars, fvars, cvars, ivars>>

SpecRank == RankInit /\ [][Rank]_vars

(***************************************************************************)
(* SpecCaps: one session in which requests are handled one after the       *)
(* other; each asks for keywords and gets chunks the session has not seen. *)
(***************************************************************************)
\* the chunk with number n
CapChunk(n) ==
    [id |-> "doc" \o ToString(n), access_level |-> "public",
     departments |-> {"all"}, score |-> ScoreUnit \div 2,
     searchType |-> "vector", finalScore |-> ScoreUnit \div 2]

\* the keyword with number n
CapWord(n) == "topic" \o ToString(n)

\* chunks in the result of a turn, and keywords in its question
CapChunkCounts == {0, ContextTopK}
CapKeywordCounts == {0, 2}

CapsInit ==
    /\ ServerInit /\ FilterIdle /\ RankIdle /\ IngestIdle
    /\ capSession = FreshSession(NoOwner)
    /\ capTurns = 0
    /\ capNextChunk = 0
    /\ capNextKeyword = 0
    /\ capRepeats = 0

\* turns of a run that return a chunk the session has cached already
MaxRepeats == 1

\* what a turn repeats: nothing, or the oldest or the second newest cached
\* chunk together with the oldest keyword
CapRepeatKinds == {"none", "oldest", "recent"}

\* the cached chunk as the full-text query finds it again
FoundAgain(chunk) ==
    [chunk EXCEPT !.searchType = "keyword", !.score = ScoreUnit \div 4,
                  !.finalScore = ScoreUnit \div 4]

\* the result of a turn: the repeated chunk first, then unseen chunks
CapTopChunks(nChunks, repeat) ==
    LET cache == capSession.previousChunks
        repeated ==
            IF repeat = "none" THEN <<>>
            ELSE <<FoundAgain(cache[IF repeat = "oldest" THEN 1
                                    ELSE Len(cache) - 1])>>
    IN  repeated \o
        [k \in 1..(nChunks - Len(repeated)) |-> CapChunk(capNextChunk + k)]

\* the question of a turn: the repeated keyword first, then unseen keywords
CapQuestion(nKeywords, repeat) ==
    (IF repeat = "none" \/ capSession.topicKeywords = <<>> THEN <<>>
     ELSE <<capSession.topicKeywords[1]>>) \o
    [k \in 1..nKeywords |-> CapWord(capNextKeyword + k)]

\* one successful /api/retrieve from the topic tracking to
\* conversationSessions.set, with no other request in between
CapTurn(nChunks, nKeywords, repeat) ==
    /\ capTurns < MaxTurns
    /\ repeat # "none" =>
           /\ capRepeats < MaxRepeats
           /\ nChunks > 0
           /\ Len(capSession.previousChunks) >= 2
    /\ LET question == CapQuestion(nKeywords, repeat)
           topChunks == CapTopChunks(nChunks, repeat)
           sessionData ==
               [capSession EXCEPT !.topicKeywords =
                   SetAddAll(@, QuestionKeywords(question))]
       IN  capSession' =
               RecordTurn(sessionData, capTurns + 1, "ai", topChunks, NoUser)
    /\ capTurns' = capTurns + 1
    /\ capNextChunk' = capNextChunk + nChunks - (IF repeat = "none" THEN 0 ELSE 1)
    /\ capNextKeyword' = capNextKeyword + nKeywords
    /\ capRepeats' = capRepeats + (IF repeat = "none" THEN 0 ELSE 1)
    /\ UNCHANGED <<svars, fvars, rvars, ivars>>

CapsNext ==
    \E nChunks \in CapChunkCounts, nKeywords \in CapKeywordCounts,
       repeat \in CapRepeatKinds :
        CapTurn(nChunks, nKeywords, repeat)

SpecCaps == CapsInit /\ [][CapsNext]_vars

(***************************************************************************)
(* SpecWarm: the handlers on a session that earlier turns have stored.     *)
(* Each earlier turn was asked by a caller without a user context, had two *)
(* keywords of its own and an empty result; started counts the requests    *)
(* that follow.                                                            *)
(***************************************************************************)
\* numbers of earlier turns the stored session may have
WarmTurnCounts == {1, 10}

\* the session object after n such turns; the earlier questions are
\* numbered below zero
RECURSIVE WarmSession(_)
WarmSession(n) ==
    IF n = 0 THEN FreshSession(NoOwner)
    ELSE LET sessionData == WarmSession(n - 1)
             question == <<CapWord(2 * n - 1), CapWord(2 * n)>>
         IN  RecordTurn([sessionData EXCEPT !.topicKeywords =
                            SetAddAll(@, QuestionKeywords(question))],
                        0 - n, "fallback", <<>>, NoUser)

WarmInit ==
    /\ \E n \in WarmTurnCounts :
           heap = [o \in ObjIds |-> IF o = 1 THEN WarmSession(n)
                                    ELSE FreshSession(NoOwner)]
    /\ store = [sid \in SessionIds |-> IF sid \in SingleSession THEN 1 ELSE NoObj]
    /\ reqs = [i \in Slots |-> IdleRequest]
    /\ started = 0
    /\ FilterIdle /\ RankIdle /\ CapsIdle /\ IngestIdle

SpecWarm == WarmInit /\ [][Next]_vars

(***************************************************************************)
(* SpecIngest: POST /api/ingest, one request after the other.  The         *)
(* documents are one sentence shorter than a chunk; the audit sink answers.*)
(***************************************************************************)
\* ingest requests in a run
MaxIngests == 2

\* a department manager of the sample data, and a user whose role has the
\* documents permission 'none'
John == [id |-> 2, role |-> "manager", accessLevel |-> 2,
         department |-> "Underwriting"]
Guest == [id |-> 7, role |-> "guest", accessLevel |-> 1,
          department |-> "General"]
IngestCallers == {NoUser, Admin, John, Mike, Guest}

\* permissions.documents of the role, from the roles table; the role guest
\* is not in the sample data
DocumentsPermission(role) ==
    CASE role = "admin"           -> "all"
      [] role = "manager"         -> "department"
      [] role = "agent"           -> "public"
      [] role = "underwriter"     -> "underwriting"
      [] role = "claims_adjuster" -> "claims"
      [] role = "employee"        -> "public"
      [] OTHER                    -> "none"

\* the documents sent; the empty one is a request without documentText
IngestTexts ==
    { <<>>,
      <<"Confidential", "executive", "memo">>,
      <<"Quarterly", "revenue", "report">>,
      <<"underwriting", "risk", "guide">>,
      <<"claims", "handbook">>,
      <<"community", "news">> }

\* text.toLowerCase() on the words of the documents
IngestLower(text) ==
    [k \in DOMAIN text |->
        CASE text[k] = "Confidential" -> "confidential"
          [] text[k] = "Quarterly"    -> "quarterly"
          [] OTHER                    -> text[k]]

\* determineAccessLevel(text, userRole, userDept)
DetermineAccessLevel(text, userRole) ==
    LET lowerText == IngestLower(text)
        Has(word) == TextIncludes(lowerText, word)
    IN  IF userRole = "admin" /\ (Has("confidential") \/ Has("executive"))
        THEN [accessLevel |-> "confidential", departments |-> {"executive"}]
        ELSE IF userRole = "admin"
                /\ (Has("financial") \/ Has("revenue") \/ Has("profit"))
        THEN [accessLevel |-> "internal",
              departments |-> {"management", "finance"}]
        ELSE IF Has("underwriting") \/ Has("risk")
        THEN [accessLevel |-> "departmental", departments |-> {"underwriting"}]
        ELSE IF Has("claims") \/ Has("investigation")
        THEN [accessLevel |-> "departmental", departments |-> {"claims"}]
        ELSE [accessLevel |-> "public", departments |-> {"all"}]

\* splitTextIntoChunks on a document of one sentence below the chunk size
SplitTextIntoChunks(text) == IF text = <<>> THEN <<>> ELSE <<text>>

\* the Document node with its Chunk nodes, as the transaction creates them
DocumentNode(text, user) ==
    LET doc == DetermineAccessLevel(text, user.role)
        chunks == SplitTextIntoChunks(text)
    IN  [content |-> text, ingested_by |-> user.id,
         access_level |-> doc.accessLevel, departments |-> doc.departments,
         chunks |-> [k \in DOMAIN chunks |->
             [text |-> chunks[k],
              access_level |-> DetermineAccessLevel(chunks[k], user.role).accessLevel,
              departments |-> DetermineAccessLevel(chunks[k], user.role).departments]]]

\* the status of the response to an ingest request
IngestStatus(user, text, dbOk) ==
    IF user = NoUser THEN 401
    ELSE IF text = <<>> THEN 400
    ELSE IF DocumentsPermission(user.role) = "none" THEN 403
    ELSE IF dbOk THEN 200 ELSE 500

IngestInit ==
    /\ ServerInit /\ FilterIdle /\ RankIdle /\ CapsIdle
    /\ documents = <<>>
    /\ ingestLog = <<>>

\* one POST /api/ingest; the transaction commits or fails as a whole
Ingest(user, text, dbOk) ==
    /\ Len(ingestLog) < MaxIngests
    /\ LET status == IngestStatus(user, text, dbOk)
       IN  /\ ingestLog' = Append(ingestLog, [user |-> user, status |-> status])
           /\ documents' = IF status = 200
                            THEN Append(documents, DocumentNode(text, user))
                            ELSE documents
    /\ UNCHANGED <<svars, fvars, rvars, cvars>>

IngestNext ==
    \E user \in IngestCallers, text \in IngestTexts, dbOk \in BOOLEAN :
        Ingest(user, text, dbOk)

SpecIngest == IngestInit /\ [][IngestNext]_vars

(***************************************************************************)
(* Properties of the access-control filter, checked under SpecFilter.      *)
(***************************************************************************)
\* candidate i of the input is in the output of the filter
InOutput(i) == \E j \in DOMAIN fOut : fOut[j].id = fChunks[i].id

\* two department strings are equal when compared case-insensitively
SameIgnoringCase(a, b) ==
    a # NoDept /\ b # NoDept /\ toLowerCase(a) = toLowerCase(b)

Authenticated(user) == user # NoUser
NonAdmin(user) == user # NoUser /\ user.role # "admin"

\* C2: a confidential passage is in the output of the filter only if the
\* user's role is admin or the user's accessLevel is at least 3.
C2_ConfidentialNeedsClearance ==
    fDone =>
        \A j \in DOMAIN fOut :
            fOut[j].access_level = "confidential" =>
                /\ Authenticated(fUser)
                /\ fUser.role = "admin" \/ fUser.accessLevel >= 3

\* a confidential candidate was filtered for an authenticated user who is
\* neither admin nor at level 3, and was dropped
C2_Witness ==
    /\ fDone
    /\ NonAdmin(fUser) /\ fUser.accessLevel = 2
    /\ \E i \in DOMAIN fChunks :
           fChunks[i].access_level = "confidential" /\ ~InOutput(i)

\* C7 as stated: a passage whose access level is none of the four known
\* levels is never in the output of the filter, for any user context.
C7_UnknownLevelNeverAllowed ==
    fDone => \A j \in DOMAIN fOut : fOut[j].access_level \in KnownLevels

\* C7 as amended: a passage whose access level is none of the four known
\* levels is in the output of the filter exactly when the user is admin;
\* for anonymous and non-admin users it is silently denied.
C7_UnknownLevelOnlyForAdmin ==
    fDone =>
        \A i \in DOMAIN fChunks :
            fChunks[i].access_level \notin KnownLevels =>
                (InOutput(i) <=> (Authenticated(fUser) /\ fUser.role = "admin"))

\* a candidate without a known level was filtered for a non-admin user and
\* dropped, while a public candidate of the same call was kept
C7_Witness ==
    /\ fDone
    /\ NonAdmin(fUser)
    /\ \E i \in DOMAIN fChunks :
           fChunks[i].access_level \notin KnownLevels /\ ~InOutput(i)
    /\ \E i \in DOMAIN fChunks :
           fChunks[i].access_level = "public" /\ InOutput(i)

\* C8: for a non-admin authenticated user a departmental passage is allowed
\* if and only if one of its department tags equals the user's department
\* compared case-insensitively.
C8_DepartmentalIffDeptMatch ==
    (fDone /\ NonAdmin(fUser)) =>
        \A i \in DOMAIN fChunks :
            fChunks[i].access_level = "departmental" =>
                (InOutput(i) <=>
                    \E tag \in fChunks[i].departments :
                        SameIgnoringCase(tag, fUser.department))

\* the scenario of the specification: department "Underwriting", role
\* underwriter; the underwriting-tagged passage is kept, the claims-tagged
\* one is dropped
C8_Witness ==
    /\ fDone
    /\ fUser.role = "underwriter" /\ fUser.department = "Underwriting"
    /\ Len(fChunks) = 2
    /\ fChunks[1].access_level = "departmental"
    /\ fChunks[1].departments = {"underwriting"}
    /\ fChunks[2].access_level = "departmental"
    /\ fChunks[2].departments = {"claims"}
    /\ InOutput(1) /\ ~InOutput(2)

\* C9: for a non-admin authenticated user an internal passage is allowed if
\* and only if it is tagged management and the user is manager-or-higher
\* (role manager or accessLevel >= 2), or it is tagged finance and the
\* user's department is finance.
C9_InternalIffManagementOrFinance ==
    (fDone /\ NonAdmin(fUser)) =>
        \A i \in DOMAIN fChunks :
            fChunks[i].access_level = "internal" =>
                (InOutput(i) <=>
                    \/ /\ "management" \in fChunks[i].departments
                       /\ fUser.role = "manager" \/ fUser.accessLevel >= 2
                    \/ /\ "finance" \in fChunks[i].departments
                       /\ SameIgnoringCase(fUser.department, "finance"))

\* a manager outside finance gets the management-tagged internal passage
\* and not the finance-tagged one
C9_Witness ==
    /\ fDone
    /\ fUser.role = "manager" /\ fUser.department = "Underwriting"
    /\ Len(fChunks) = 2
    /\ fChunks[1].access_level = "internal"
    /\ fChunks[1].departments = {"management"}
    /\ fChunks[2].access_level = "internal"
    /\ fChunks[2].departments = {"finance"}
    /\ InOutput(1) /\ ~InOutput(2)

\* the user of C10: role underwriter, department finance, accessLevel 1
FinanceUnderwriter(user) ==
    /\ user # NoUser
    /\ user.role = "underwriter"
    /\ user.department = "finance"
    /\ user.accessLevel = 1

\* C10 as stated: an underwriter of department finance with accessLevel 1
\* is denied every internal passage tagged finance.
C10_FinanceUnderwriterDenied ==
    (fDone /\ FinanceUnderwriter(fUser)) =>
        \A i \in DOMAIN fChunks :
            (fChunks[i].access_level = "internal"
                /\ "finance" \in fChunks[i].departments) => ~InOutput(i)

\* C10 as amended: an underwriter of department finance with accessLevel 1
\* is allowed an internal passage exactly when it is tagged finance (the
\* finance rule does not ask for manager rank); an internal passage tagged
\* management only is denied.
C10_FinanceUnderwriterAllowed ==
    (fDone /\ FinanceUnderwriter(fUser)) =>
        \A i \in DOMAIN fChunks :
            fChunks[i].access_level = "internal" =>
                (InOutput(i) <=> "finance" \in fChunks[i].departments)

\* that user was handed a finance-tagged and a management-tagged internal
\* passage; the first came back, the second did not
C10_Witness ==
    /\ fDone
    /\ FinanceUnderwriter(fUser)
    /\ Len(fChunks) = 2
    /\ fChunks[1].access_level = "internal"
    /\ fChunks[1].departments = {"finance"}
    /\ fChunks[2].access_level = "internal"
    /\ fChunks[2].departments = {"management"}
    /\ InOutput(1) /\ ~InOutput(2)

(***************************************************************************)
(* Properties of the request handlers, checked under Spec.                 *)
(***************************************************************************)
\* request i has computed its final result set topChunks: the chunks that
\* go to the answer generator and into the response
HasResult(i) == reqs[i].pc = "generate"

\* the access-control policy, as the table of the specification gives it
PolicyAllows(chunk, user) ==
    IF user = NoUser THEN chunk.access_level = "public"
    ELSE \/ user.role = "admin"
         \/ chunk.access_level = "public"
         \/ /\ chunk.access_level = "departmental"
            /\ \E tag \in chunk.departments :
                   SameIgnoringCase(tag, user.department)
         \/ /\ chunk.access_level = "internal"
            /\ \/ /\ "management" \in chunk.departments
                  /\ user.role = "manager" \/ user.accessLevel >= 2
               \/ /\ "finance" \in chunk.departments
                  /\ SameIgnoringCase(user.department, "finance")
         \/ /\ chunk.access_level = "confidential"
            /\ user.accessLevel >= 3

\* the session cache of the session request i works on holds this chunk
Cached(i, id) ==
    \E k \in DOMAIN heap[reqs[i].obj].previousChunks :
        heap[reqs[i].obj].previousChunks[k].id = id

\* C1: every passage in the final result set of a request is allowed by the
\* access-control policy for the user of that request, whether it was
\* retrieved, came from the fallback or was merged from the session cache.
C1_ResultAllowedForCaller ==
    \A i \in Slots :
        HasResult(i) =>
            \A k \in DOMAIN reqs[i].topChunks :
                PolicyAllows(reqs[i].topChunks[k], reqs[i].user)

\* a follow-up by a caller who is not admin on a session whose cache holds
\* the confidential chunk c5, which matches the question: the result has a
\* chunk of the cache, and not c5
C1_Witness ==
    \E i \in Slots :
        /\ HasResult(i)
        /\ reqs[i].user # Admin
        /\ reqs[i].isFollowUp
        /\ Cached(i, "c5")
        /\ \E k \in DOMAIN reqs[i].topChunks :
               reqs[i].topChunks[k].searchType = "previous_context"
        /\ \A k \in DOMAIN reqs[i].topChunks : reqs[i].topChunks[k].id # "c5"

\* C3: every passage in the result set of a request without user context
\* has access level public, whatever the session cache holds.
C3_AnonymousOnlyPublic ==
    \A i \in Slots :
        (HasResult(i) /\ reqs[i].user = NoUser) =>
            \A k \in DOMAIN reqs[i].topChunks :
                reqs[i].topChunks[k].access_level = "public"

\* an anonymous follow-up on a session owned by the administrator, whose
\* cache holds chunks that are not public, has a non-empty result
C3_Witness ==
    \E i \in Slots :
        /\ HasResult(i)
        /\ reqs[i].user = NoUser
        /\ reqs[i].isFollowUp
        /\ heap[reqs[i].obj].userId = Admin.id
        /\ Cached(i, "c5") /\ Cached(i, "c4")
        /\ Len(reqs[i].topChunks) > 0

\* the stored session of sid has an owner, and it is not the user v
OwnedByOther(sid, v) ==
    /\ store[sid] # NoObj
    /\ v # NoUser
    /\ heap[store[sid]].userId # NoOwner
    /\ heap[store[sid]].userId # v.id

\* C4: a retrieve, clear-session or conversation-read request that arrives
\* when the stored session records an owner other than its authenticated
\* user is answered 403, performs no retrieval and leaves the session store
\* as it was.
C4_OwnerConflictRejected ==
    [][ \A i \in Slots, v \in Callers, sid \in SessionIds :
            ( /\ OwnedByOther(sid, v)
              /\ \/ \E q \in DOMAIN Questions : RetrieveStart(i, v, sid, q)
                 \/ ClearSession(i, v, sid)
                 \/ ReadConversation(i, v, sid) )
            => /\ reqs'[i].pc = "done"
               /\ reqs'[i].status = 403
               /\ store' = store
               /\ heap' = heap ]_vars

\* a request was answered 403 and the session it asked for is stored, with
\* its owner and its history
C4_Witness ==
    \E i \in Slots, sid \in SessionIds :
        /\ reqs[i].pc = "done" /\ reqs[i].status = 403
        /\ store[sid] # NoObj
        /\ heap[store[sid]].userId # NoOwner
        /\ Len(heap[store[sid]].history) = 2

\* C5: the final result set of a request contains no passage identifier
\* twice, also when passages of the session cache were appended.
C5_NoDuplicateIds ==
    \A i \in Slots :
        HasResult(i) =>
            \A a, b \in DOMAIN reqs[i].topChunks :
                a # b => reqs[i].topChunks[a].id # reqs[i].topChunks[b].id

\* number of positions of seq that hold x
Count(seq, x) == Cardinality({ k \in DOMAIN seq : seq[k] = x })

\* C6: the final result set has at most 5 passages, and it is the head of
\* the merged list: the prior-context passages take part in the ranking
\* before the list is cut, so that the result holds min(5, merged) passages,
\* all of them from the merged list, in non-increasing order of score, and
\* no passage left out has a higher score than one that is in.
C6_AtMostFiveAfterMerge ==
    \A i \in Slots :
        HasResult(i) =>
            LET top == reqs[i].topChunks
                combined == reqs[i].combinedChunks
            IN  /\ Len(top) <= 5
                /\ Len(top) = Min(5, Len(combined))
                /\ \A k \in DOMAIN top : Count(top, top[k]) <= Count(combined, top[k])
                /\ \A k \in 1..(Len(top) - 1) :
                       ScoreOrZero(top[k]) >= ScoreOrZero(top[k + 1])
                /\ \A k \in DOMAIN combined :
                       Count(top, combined[k]) < Count(combined, combined[k]) =>
                           \A j \in DOMAIN top :
                               ScoreOrZero(top[j]) >= ScoreOrZero(combined[k])

\* a follow-up whose merged list has more than 5 passages: 5 are returned,
\* one of them from the session cache, and a retrieved passage was cut
C6_Witness ==
    \E i \in Slots :
        /\ HasResult(i)
        /\ Len(reqs[i].combinedChunks) > 5
        /\ Len(reqs[i].topChunks) = 5
        /\ \E k \in DOMAIN reqs[i].topChunks :
               reqs[i].topChunks[k].searchType = "previous_context"
        /\ \E k \in DOMAIN reqs[i].retrievedChunks :
               Count(reqs[i].topChunks, reqs[i].retrievedChunks[k]) = 0

\* the rows of a query result that carry the identifier id
RawScores(hits, id) == { hits[k].score : k \in { j \in DOMAIN hits : hits[j].id = id } }

\* C11 (as the claim states it): every passage of the final result set,
\* the passages carried over from the session cache included, is returned
\* with a score that is at least its raw score.
C11_FinalScoreAtLeastRaw ==
    \A i \in Slots :
        HasResult(i) =>
            \A k \in DOMAIN reqs[i].topChunks :
                ScoreOrZero(reqs[i].topChunks[k]) >= reqs[i].topChunks[k].score

\* C11 (amended): every passage the ranking returns, and every passage of
\* the final result set that is not a copy from the session cache, has a
\* finalScore that is at least every raw score the vector and the full-text
\* query gave it.
C11_RankedScoreAtLeastRaw ==
    [][ \A i \in Slots, vectorHits \in VectorOutcomes,
           keywordHits \in KeywordOutcomes, keywordFailed \in BOOLEAN :
            ( /\ reqs[i].pc = "search" /\ reqs'[i].pc = "generate"
              /\ SearchHybrid(i, vectorHits, keywordHits, keywordFailed) ) =>
                LET raw(id) ==
                        RawScores(vectorHits, id) \cup
                        (IF keywordFailed THEN {} ELSE RawScores(keywordHits, id))
                    AtLeastRaw(chunk) ==
                        /\ chunk.finalScore # NoFinalScore
                        /\ raw(chunk.id) # {}
                        /\ \A score \in raw(chunk.id) : chunk.finalScore >= score
                IN  /\ \A k \in DOMAIN reqs'[i].retrievedChunks :
                           AtLeastRaw(reqs'[i].retrievedChunks[k])
                    /\ \A k \in DOMAIN reqs'[i].topChunks :
                           reqs'[i].topChunks[k].searchType # "previous_context"
                               => AtLeastRaw(reqs'[i].topChunks[k]) ]_vars

\* a follow-up whose final result set holds a passage found by both queries,
\* boosted above its raw score, and a copy from the session cache that is
\* scored below its raw score
C11_Witness ==
    \E i \in Slots :
        /\ HasResult(i)
        /\ \E k \in DOMAIN reqs[i].topChunks :
               /\ IsHybrid(reqs[i].topChunks[k].searchType)
               /\ reqs[i].topChunks[k].finalScore > reqs[i].topChunks[k].score
        /\ \E k \in DOMAIN reqs[i].topChunks :
               /\ reqs[i].topChunks[k].searchType = "previous_context"
               /\ reqs[i].topChunks[k].finalScore < reqs[i].topChunks[k].score

(***************************************************************************)
(* Properties of the access-control filter that use the policy table,      *)
(* checked under SpecFilter.                                               *)
(***************************************************************************)
\* C16: the output of the filter is the list of the candidates of the input
\* that the policy allows, in the order of the input and as they were
\* handed in (access level and department tags included), and filtering
\* the output again for the same user returns it unchanged.
C16_FilterOrderPreservingIdempotent ==
    fDone =>
        /\ fOut = SelectSeq(fChunks, LAMBDA chunk : PolicyAllows(chunk, fUser))
        /\ \E pos \in [DOMAIN fOut -> DOMAIN fChunks] :
               /\ \A a, b \in DOMAIN fOut : a < b => pos[a] < pos[b]
               /\ \A a \in DOMAIN fOut : fOut[a] = fChunks[pos[a]]
        /\ filterChunksByPermissions(fOut, fUser) = fOut

\* two candidates of different access levels were handed in to a user who
\* is not admin, and both passed
C16_Witness ==
    /\ fDone
    /\ NonAdmin(fUser)
    /\ Len(fChunks) = 2 /\ Len(fOut) = 2
    /\ fOut[1].access_level = "internal"
    /\ fOut[2].access_level = "departmental"

(***************************************************************************)
(* Properties of the ranking, checked under SpecRank.                      *)
(***************************************************************************)
\* the text of the candidate matches at least one monetary pattern
MatchesMonetary(chunk) == KB[chunk.id].monetaryMatches > 0

\* C15 (as the claim states it): for a monetary question every candidate
\* whose text matches a monetary pattern is ranked above every candidate
\* whose text matches none.
C15_MonetaryMatchRanksFirst ==
    (rDone /\ IsMonetaryQuestion(Questions[rQuery])) =>
        \A a, b \in DOMAIN rOut :
            (MatchesMonetary(rOut[a]) /\ ~MatchesMonetary(rOut[b])) => a < b

\* C15 (amended): for a monetary question a candidate whose text matches n
\* monetary patterns, n >= 1, has a final score of at least 2 + n times its
\* raw score, and it is ranked above every candidate matching none whose
\* final score is below 2 + n times that raw score.
C15_MonetaryMatchBoosted ==
    (rDone /\ IsMonetaryQuestion(Questions[rQuery])) =>
        \A a, b \in DOMAIN rOut :
            MatchesMonetary(rOut[a]) =>
                LET floor == (2 + KB[rOut[a].id].monetaryMatches) * rOut[a].score
                IN  /\ rOut[a].finalScore >= floor
                    /\ (~MatchesMonetary(rOut[b]) /\ rOut[b].finalScore < floor)
                           => a < b

\* a monetary question for which a candidate matching a monetary pattern is
\* ranked above a candidate that matches none and has the higher raw score
C15_Witness ==
    /\ rDone /\ IsMonetaryQuestion(Questions[rQuery])
    /\ \E a, b \in DOMAIN rOut :
           /\ MatchesMonetary(rOut[a]) /\ ~MatchesMonetary(rOut[b])
           /\ rOut[b].score > rOut[a].score
           /\ a < b

(***************************************************************************)
(* Properties of the session caps, checked under SpecCaps.                 *)
(***************************************************************************)
\* entry m of the log of all entries ever recorded: each turn records the
\* entry of the user and then the entry of the assistant
LogEntry(m) ==
    [sender |-> IF m % 2 = 1 THEN "user" ELSE "bot", question |-> (m + 1) \div 2]

\* C12: after every recorded turn the stored session has at most 20 history
\* entries, at most 50 cached passages and at most 20 topic keywords; the
\* history is the most recent entries of all those recorded, in the order
\* they were recorded; after 25 recorded turns it has exactly 20 entries.
C12_SessionCapsAfterRecord ==
    capTurns >= 1 =>
        LET history == capSession.history
            n == Len(history)
        IN  /\ n <= 20
            /\ Len(capSession.previousChunks) <= 50
            /\ Len(capSession.topicKeywords) <= 20
            /\ n = Min(20, 2 * capTurns)
            /\ \A k \in 1..n : history[k] = LogEntry(2 * capTurns - n + k)
            /\ capTurns = 25 => n = 20

\* 25 turns were recorded, with more than 50 distinct chunks and more than
\* 20 distinct keywords, and the three collections are at their caps
C12_Witness ==
    /\ capTurns = 25
    /\ capNextChunk > 50 /\ capNextKeyword > 20
    /\ Len(capSession.history) = 20
    /\ Len(capSession.previousChunks) = 50
    /\ Len(capSession.topicKeywords) = 20

(***************************************************************************)
(* Properties of the request handlers, continued.                          *)
(***************************************************************************)
\* C13: once /api/clear-session has succeeded for a session, the session
\* stays absent as long as no retrieve on it arrives, also when a retrieve
\* on it was being handled when it was cleared: the end of such a retrieve
\* leaves the session absent, so that a read returns an empty session.
C13_ClearedSessionStaysAbsent ==
    [][ \A i \in Slots :
            ( /\ reqs[i].pc = "generate" /\ reqs[i].clearedSince
              /\ reqs'[i].pc = "done" )
            => store'[reqs[i].sid] = NoObj ]_vars

\* the question contains the word as a substring, whatever the case
Mentions(question, word) ==
    \E k \in DOMAIN question : WordIncludes(LowerWord(question[k]), word)

\* C14: for a follow-up question (shorter than 20 characters, on a session
\* with history) that contains neither "total" nor "overall", the search
\* string is the question followed by the 3 topic keywords added last to
\* the session (all of them if there are fewer than 3).
C14_AppendsThreeMostRecent ==
    [][ \A i \in Slots, v \in Callers, sid \in SessionIds, q \in DOMAIN Questions :
            ( /\ reqs'[i].pc = "search"
              /\ RetrieveStart(i, v, sid, q)
              /\ store[sid] # NoObj
              /\ Len(heap[store[sid]].history) > 0
              /\ StringLength(QuestionLower(Questions[q])) < 20
              /\ ~Mentions(Questions[q], "total")
              /\ ~Mentions(Questions[q], "overall") )
            => reqs'[i].searchQuery =
                   Questions[q] \o TakeLast(heap[store[sid]].topicKeywords, 3) ]_vars

\* number of rows of a query result the policy allows the user to see
AllowedRows(hits, user) ==
    Cardinality({ k \in DOMAIN hits :
        PolicyAllows([access_level |-> KB[hits[k].id].access_level,
                      departments |-> KB[hits[k].id].departments], user) })

\* C17: when the full-text query fails and the vector query has succeeded,
\* the request goes on to the answer generation with the vector candidates
\* only: every retrieved passage is a row of the vector result with
\* provenance vector, boosted from its raw score, allowed for the caller,
\* and the passages are sorted by final score and cut to 5.
C17_KeywordFailureIsNotFatal ==
    [][ \A i \in Slots, vectorHits \in VectorOutcomes,
           keywordHits \in KeywordOutcomes :
            ( /\ reqs[i].pc = "search" /\ reqs'[i].pc # "search"
              /\ SearchHybrid(i, vectorHits, keywordHits, TRUE) ) =>
                LET out == reqs'[i].retrievedChunks
                IN  /\ reqs'[i].pc = "generate"
                    /\ \A k \in DOMAIN out :
                           /\ out[k].searchType = "vector"
                           /\ RawScores(vectorHits, out[k].id) = {out[k].score}
                           /\ out[k].finalScore >= out[k].score
                           /\ PolicyAllows(out[k], reqs[i].user)
                    /\ \A a, b \in DOMAIN out : a # b => out[a].id # out[b].id
                    /\ \A k \in 1..(Len(out) - 1) :
                           out[k].finalScore >= out[k + 1].finalScore
                    /\ Len(out) = Min(5, AllowedRows(vectorHits, reqs[i].user)) ]_vars

\* a request whose retrieved passages all have provenance vector although
\* c1 is among them, which the full-text query returns whenever it answers
C17_Witness ==
    \E i \in Slots :
        /\ HasResult(i)
        /\ Len(reqs[i].retrievedChunks) >= 2
        /\ \A k \in DOMAIN reqs[i].retrievedChunks :
               reqs[i].retrievedChunks[k].searchType = "vector"
        /\ \E k \in DOMAIN reqs[i].retrievedChunks :
               reqs[i].retrievedChunks[k].id = "c1"

\* the stored sessions are the same objects with the same contents
StoredSessionsUnchanged ==
    /\ store' = store
    /\ \A sid \in SessionIds :
           store[sid] # NoObj => heap'[store[sid]] = heap[store[sid]]

\* C18: when the vector query and the fallback query both fail, the caller
\* is sent a failure response, and the stored sessions are left as they
\* were.
C18_DoubleFailureAnswered500 ==
    [][ \A i \in Slots, errorAuditOk \in BOOLEAN :
            ( /\ reqs[i].pc = "search" /\ reqs'[i].pc = "done"
              /\ SearchFailed(i, errorAuditOk) )
            => /\ reqs'[i].status = 500
               /\ StoredSessionsUnchanged ]_vars

\* C19: when the answer generator fails and the final result set is not
\* empty, the request is answered 200 with the model mock-fallback, and the
\* turn is recorded in the stored session.
C19_GeneratorFailureStillSucceeds ==
    [][ \A i \in Slots, auditOk \in BOOLEAN, errorAuditOk \in BOOLEAN :
            ( /\ reqs[i].pc = "generate" /\ reqs'[i].pc = "done"
              /\ Len(reqs[i].topChunks) > 0
              /\ GenerateDone(i, FALSE, auditOk, errorAuditOk) )
            => /\ reqs'[i].status = 200
               /\ reqs'[i].model = "mock-fallback"
               /\ store'[reqs[i].sid] # NoObj
               /\ LET history == heap'[store'[reqs[i].sid]].history
                  IN  /\ Len(history) >= 2
                      /\ history[Len(history)] =
                             [sender |-> "bot", question |-> reqs[i].question] ]_vars

\* C20: when recording the audit event of a query fails, an authenticated
\* retrieve whose retrieval and answer generation succeeded is answered 200
\* all the same.
C20_AuditFailureKeepsResponse ==
    [][ \A i \in Slots, errorAuditOk \in BOOLEAN :
            ( /\ reqs[i].pc = "generate" /\ reqs'[i].pc = "done"
              /\ reqs[i].user # NoUser
              /\ Len(reqs[i].topChunks) > 0
              /\ GenerateDone(i, TRUE, FALSE, errorAuditOk) )
            => reqs'[i].status = 200 ]_vars

(***************************************************************************)
(* Properties of requests on two sessions, checked under SpecSessions.     *)
(***************************************************************************)
\* the step is taken by a request on session a
ActsOn(a) ==
    \E i \in Slots :
        \/ /\ reqs[i].pc \in {"search", "generate"}
           /\ reqs[i].sid = a
           /\ reqs'[i].pc # reqs[i].pc
        \/ /\ reqs[i].pc \in {"idle", "done"}
           /\ \E v \in Callers :
                  \/ \E q \in DOMAIN Questions : RetrieveStart(i, v, a, q)
                  \/ ClearSession(i, v, a)
                  \/ ReadConversation(i, v, a)

\* the stored session of b is the same object with the same contents
SessionUnchanged(b) ==
    /\ store'[b] = store[b]
    /\ store[b] # NoObj => heap'[store[b]] = heap[store[b]]

\* no session object is stored under two identifiers or used by a request
\* on another identifier than the one it is stored under
NoSharedObject ==
    \A a, b \in SessionIds :
        (a # b /\ store[b] # NoObj) =>
            /\ store[a] # store[b]
            /\ \A i \in Slots :
                   (reqs[i].pc \in {"search", "generate"} /\ reqs[i].sid = a)
                       => reqs[i].obj # store[b]

\* C21: a step of a retrieve, clear or read on one session leaves the
\* stored state of every other session (history, cache, keywords, owner)
\* unchanged, and no session object is ever shared between two session
\* identifiers, so that nothing recorded in one reaches the other.
C21_SessionsIndependent ==
    [][ /\ \A a, b \in SessionIds :
               (a # b /\ ActsOn(a)) => SessionUnchanged(b)
        /\ NoSharedObject' ]_vars

\* both sessions are stored, each with the turn of its own question, its
\* own owner and its own keywords
C21_Witness ==
    /\ store["s1"] # NoObj /\ store["s2"] # NoObj
    /\ heap[store["s1"]].history # heap[store["s2"]].history
    /\ heap[store["s1"]].userId = Admin.id
    /\ heap[store["s2"]].userId = Mike.id
    /\ heap[store["s1"]].topicKeywords # heap[store["s2"]].topicKeywords

(***************************************************************************)
(* Properties of requests racing on one session, checked under Spec.       *)
(***************************************************************************)
\* the two history entries of a turn
TurnOf(q) ==
    << [sender |-> "user", question |-> q], [sender |-> "bot", question |-> q] >>

\* C22: session updates are not atomic across requests on one session: a
\* retrieve that finishes while another object is stored under its session
\* identifier replaces that object by its own, whose history is the one it
\* loaded followed by its own turn only, so the turn stored by the request
\* that finished first is lost.
C22_LaterStoreReplacesSession ==
    [][ \A i \in Slots :
           ( /\ reqs[i].pc = "generate" /\ reqs'[i].pc = "done"
             /\ store[reqs[i].sid] # NoObj
             /\ store[reqs[i].sid] # reqs[i].obj )
           => /\ store'[reqs[i].sid] = reqs[i].obj
              /\ heap'[reqs[i].obj].history =
                     heap[reqs[i].obj].history \o TurnOf(reqs[i].question) ]_vars

\* two retrieves were answered 200 and the stored history holds one turn
C22_Witness ==
    /\ \A i \in Slots :
           reqs[i].pc = "done" /\ reqs[i].op = "retrieve" /\ reqs[i].status = 200
    /\ store["s1"] # NoObj
    /\ Len(heap[store["s1"]].history) = 2

(***************************************************************************)
(* Properties of POST /api/ingest, checked under SpecIngest.               *)
(***************************************************************************)
\* C23: POST /api/ingest is admin-only: a request of an authenticated user
\* whose role is not admin is never answered 200, and every Document node
\* of the knowledge store was ingested by an administrator.
C23_IngestAdminOnly ==
    /\ \A k \in DOMAIN ingestLog :
           (ingestLog[k].user # NoUser /\ ingestLog[k].user.role # "admin")
               => ingestLog[k].status # 200
    /\ \A k \in DOMAIN documents : documents[k].ingested_by = Admin.id

(***************************************************************************)
(* Properties of the merge and the ordering, checked under SpecRank and    *)
(* Spec.                                                                   *)
(***************************************************************************)
\* the positions of the list that hold a record with identifier id
PositionsOf(seq, id) == { k \in DOMAIN seq : seq[k].id = id }

\* the largest number of a non-empty finite set of numbers
MaxOf(S) == CHOOSE x \in S : \A y \in S : y <= x

\* C24: the ranking merges the candidates by identity: an identifier found
\* by either query has at most one record in the result, and exactly one
\* when the caller may see it; the raw score of that record is the largest
\* of the contributing raw scores, and its provenance is vector+keyword
\* when both queries found it, and the tag of its own path otherwise.
C24_MergedByIdentity ==
    rDone =>
        \A id \in ChunkIds :
            LET inVector == PositionsOf(rVector, id) # {}
                inKeyword == PositionsOf(rKeyword, id) # {}
                records == PositionsOf(rOut, id)
            IN  /\ Cardinality(records) <= 1
                /\ records # {} <=>
                       /\ inVector \/ inKeyword
                       /\ PolicyAllows(KB[id], rUser)
                /\ \A k \in records :
                       /\ rOut[k].score =
                              MaxOf(RawScores(rVector, id) \cup RawScores(rKeyword, id))
                       /\ rOut[k].searchType =
                              IF inVector /\ inKeyword THEN "vector+keyword"
                              ELSE IF inVector THEN "vector" ELSE "keyword"

\* one passage found by both queries with the lower score in the vector
\* result, one found by the vector query only and one by the full-text
\* query only
C24_Witness ==
    /\ rDone
    /\ \E a, b, c \in DOMAIN rOut :
           /\ rOut[a].searchType = "vector+keyword"
           /\ RawScores(rVector, rOut[a].id) = {ScoreUnit \div 10}
           /\ rOut[a].score = 9 * (ScoreUnit \div 10)
           /\ rOut[b].searchType = "vector"
           /\ rOut[c].searchType = "keyword"

\* the place of a passage in the order of insertion: the rows in the order
\* the queries returned them, then the cached chunks in the order of the
\* cache
InsertionPlace(p, rows, cache) ==
    IF p.searchType = "previous_context"
    THEN Len(rows) + (CHOOSE k \in DOMAIN cache : cache[k].id = p.id)
    ELSE CHOOSE k \in DOMAIN rows :
             rows[k].id = p.id /\ \A j \in 1..(k - 1) : rows[j].id # p.id

\* the list is in non-increasing order of score, and passages of equal
\* score are in the order of their insertion
RankedStably(top, rows, cache) ==
    \A a, b \in DOMAIN top :
        a < b =>
            \/ ScoreOrZero(top[a]) > ScoreOrZero(top[b])
            \/ /\ ScoreOrZero(top[a]) = ScoreOrZero(top[b])
               /\ InsertionPlace(top[a], rows, cache)
                      < InsertionPlace(top[b], rows, cache)

\* C25: the passages of every final result set are in non-increasing order
\* of final score, and passages of equal final score keep their insertion
\* order: the order of the merged candidates (vector rows, then full-text
\* rows), with the retrieved passages before the passages appended from
\* the session cache.
C25_SortedStably ==
    [][ \A i \in Slots :
           (reqs[i].pc = "search" /\ reqs'[i].pc = "generate") =>
               LET cache == heap[reqs[i].obj].previousChunks
                   top == reqs'[i].topChunks
               IN  /\ \A vectorHits \in VectorOutcomes,
                         keywordHits \in KeywordOutcomes,
                         keywordFailed \in BOOLEAN :
                          SearchHybrid(i, vectorHits, keywordHits, keywordFailed)
                              => RankedStably(top,
                                     vectorHits \o (IF keywordFailed THEN <<>>
                                                    ELSE keywordHits),
                                     cache)
                   /\ \A fallbackHits \in FallbackOutcomes :
                          SearchFallback(i, fallbackHits)
                              => RankedStably(top, fallbackHits, cache) ]_vars

\* a final result set with three passages of the same score in a row: two
\* retrieved ones and then one from the session cache
C25_Witness ==
    \E i \in Slots :
        /\ HasResult(i)
        /\ \E k \in DOMAIN reqs[i].topChunks :
               /\ k + 2 \in DOMAIN reqs[i].topChunks
               /\ ScoreOrZero(reqs[i].topChunks[k])
                      = ScoreOrZero(reqs[i].topChunks[k + 1])
               /\ ScoreOrZero(reqs[i].topChunks[k + 1])
                      = ScoreOrZero(reqs[i].topChunks[k + 2])
               /\ reqs[i].topChunks[k].searchType # "previous_context"
               /\ reqs[i].topChunks[k + 1].searchType # "previous_context"
               /\ reqs[i].topChunks[k + 2].searchType = "previous_context"

(***************************************************************************)
(* Properties of the passages carried over from the session cache,         *)
(* checked under Spec.                                                     *)
(***************************************************************************)
\* the passages of the list that are tagged previous_context
PreviousContextOf(chunks) ==
    SelectSeq(chunks, LAMBDA chunk : chunk.searchType = "previous_context")

\* C26: passages tagged previous_context are in a result only when the
\* request is a follow-up (question under 20 characters, history not empty)
\* and the session cache is not empty; at most 2 are appended; each is a
\* cached passage whose text contains a word of the question longer than 3
\* characters, which the caller is allowed to see, and carries 0.8 times
\* the score stored for it in the cache.
C26_PreviousContextOnlyOnFollowUp ==
    [][ \A i \in Slots :
           (reqs[i].pc = "search" /\ reqs'[i].pc = "generate") =>
               LET sessionData == heap[reqs[i].obj]
                   cache == sessionData.previousChunks
                   questionLower == QuestionLower(Questions[reqs[i].question])
                   appended == PreviousContextOf(reqs'[i].combinedChunks)
               IN  /\ \A k \in DOMAIN reqs'[i].topChunks :
                          reqs'[i].topChunks[k].searchType = "previous_context"
                              => \E j \in DOMAIN appended :
                                     appended[j] = reqs'[i].topChunks[k]
                   /\ Len(appended) <= 2
                   /\ Len(appended) > 0 =>
                          /\ StringLength(questionLower) < 20
                          /\ Len(sessionData.history) > 0
                          /\ Len(cache) > 0
                   /\ \A j \in DOMAIN appended :
                          /\ \E k \in DOMAIN cache :
                                 /\ cache[k].id = appended[j].id
                                 /\ appended[j].score = cache[k].score
                                 /\ 10 * appended[j].finalScore
                                        = 8 * ScoreOrZero(cache[k])
                          /\ \E w \in DOMAIN questionLower :
                                 /\ Len(questionLower[w]) > 3
                                 /\ TextIncludes(ChunkText(appended[j]),
                                                 questionLower[w])
                          /\ PolicyAllows(appended[j], reqs[i].user) ]_vars

\* a follow-up whose result holds two passages from a session cache in
\* which three passages contain a word of the question
C26_Witness ==
    \E i \in Slots :
        /\ HasResult(i)
        /\ Len(PreviousContextOf(reqs[i].topChunks)) = 2
        /\ Cardinality({ k \in DOMAIN heap[reqs[i].obj].previousChunks :
               \E w \in DOMAIN Questions[reqs[i].question] :
                   /\ Len(LowerWord(Questions[reqs[i].question][w])) > 3
                   /\ TextIncludes(
                          ChunkText(heap[reqs[i].obj].previousChunks[k]),
                          LowerWord(Questions[reqs[i].question][w])) }) > 2

(***************************************************************************)
(* Properties of the eviction order, checked under SpecCaps.               *)
(***************************************************************************)
\* the identifiers of a list of chunks
IdsOf(chunks) == [k \in DOMAIN chunks |-> chunks[k].id]

\* C27: when a turn is recorded, the cache holds the identifiers inserted
\* so far in the order of their first insertion, cut to the 50 inserted
\* last, and the keyword set likewise, cut to the 20 inserted last;
\* an identifier that was cached already gets the new value at the place
\* it had, and a keyword that was present stays where it was.
C27_EvictsEarliestInserted ==
    [][ \A nChunks \in CapChunkCounts, nKeywords \in CapKeywordCounts,
           repeat \in CapRepeatKinds :
           ( /\ capNextKeyword' = capNextKeyword + nKeywords
             /\ capRepeats' = capRepeats + (IF repeat = "none" THEN 0 ELSE 1)
             /\ CapTurn(nChunks, nKeywords, repeat) ) =>
               LET cache == capSession.previousChunks
                   keywords == capSession.topicKeywords
                   topChunks == CapTopChunks(nChunks, repeat)
                   question == CapQuestion(nKeywords, repeat)
                   unseen == SelectSeq(topChunks, LAMBDA c :
                                 \A k \in DOMAIN cache : cache[k].id # c.id)
                   unasked == SelectSeq(question, LAMBDA w :
                                  \A k \in DOMAIN keywords : keywords[k] # w)
                   after == capSession'.previousChunks
               IN  /\ IdsOf(after) = TakeLast(IdsOf(cache) \o IdsOf(unseen), 50)
                   /\ \A k \in DOMAIN after :
                          IF \E j \in DOMAIN topChunks : topChunks[j].id = after[k].id
                          THEN \E j \in DOMAIN topChunks : topChunks[j] = after[k]
                          ELSE \E j \in DOMAIN cache : cache[j] = after[k]
                   /\ capSession'.topicKeywords
                          = TakeLast(keywords \o unasked, 20) ]_vars

\* the cache was full when a turn returned its second newest chunk again
\* with four unseen ones and asked its oldest keyword again: the four
\* oldest chunks are gone and the repeated chunk has its new value at the
\* place it had, before the chunk that was inserted after it
C27_Witness ==
    /\ capRepeats = 1
    /\ capNextChunk >= 54
    /\ Len(capSession.previousChunks) = 50
    /\ capSession.previousChunks[50] = CapChunk(capNextChunk)
    /\ capSession.previousChunks[46] = CapChunk(capNextChunk - 4)
    /\ capSession.previousChunks[45] = FoundAgain(CapChunk(capNextChunk - 5))
    /\ capSession.previousChunks[1] = CapChunk(capNextChunk - 49)
    /\ capNextKeyword > 20
    /\ Len(capSession.topicKeywords) = 20

(***************************************************************************)
(* Properties of the recorded owner, checked under Spec.                   *)
(***************************************************************************)
\* C28: once the stored session of an identifier records an owner, it
\* records the same owner for as long as it is stored, under every
\* interleaving of requests.
C28_OwnerNeverChanges ==
    [][ \A sid \in SessionIds :
           ( /\ store[sid] # NoObj
             /\ heap[store[sid]].userId # NoOwner
             /\ store'[sid] # NoObj )
           => heap'[store'[sid]].userId = heap[store[sid]].userId ]_vars

\* C29: a request without a user context is never refused for ownership:
\* on every session, an owned one included, its retrieve passes the check
\* and goes on to the search, its conversation read is answered 200 with
\* the stored session, its clear is answered 200 and removes the session;
\* and when its retrieve is recorded, the session object it used keeps the
\* owner it had and is the stored one.
C29_AnonymousNeverRefused ==
    [][ \A i \in Slots, sid \in SessionIds :
           /\ reqs[i].pc \in {"idle", "done"} =>
                  /\ \A q \in DOMAIN Questions :
                         RetrieveStart(i, NoUser, sid, q) =>
                             /\ reqs'[i].pc = "search"
                             /\ store[sid] # NoObj => reqs'[i].obj = store[sid]
                  /\ ReadConversation(i, NoUser, sid) =>
                         /\ reqs'[i].status = 200
                         /\ store[sid] # NoObj =>
                                reqs'[i].body = heap[store[sid]]
                  /\ ClearSession(i, NoUser, sid) =>
                         reqs'[i].status = 200 /\ store'[sid] = NoObj
           /\ ( /\ reqs[i].pc = "generate" /\ reqs'[i].pc = "done"
                /\ reqs[i].user = NoUser /\ reqs[i].sid = sid ) =>
                  /\ reqs'[i].status = 200
                  /\ store'[sid] = reqs[i].obj
                  /\ heap'[reqs[i].obj].userId = heap[reqs[i].obj].userId ]_vars

\* the retrieve of a caller without a user context has passed the check on
\* the stored session of the administrator, has searched with it and is
\* about to record its turn in it
C29_Witness ==
    \E i \in Slots :
        /\ reqs[i].pc = "generate" /\ reqs[i].user = NoUser
        /\ store["s1"] = reqs[i].obj
        /\ heap[reqs[i].obj].userId = Admin.id
        /\ Len(heap[reqs[i].obj].history) = 2

(***************************************************************************)
(* Properties of a conversation read during a retrieve, checked under      *)
(* SpecWarm.                                                               *)
(***************************************************************************)
\* C30: a conversation read never shows a session between the state before
\* and the state after a retrieve: it shows at most 20 topic keywords, and
\* a keyword of a question only together with the turn of that question in
\* the history.
C30_ReadSeesWholeTurns ==
    \A i \in Slots :
        (reqs[i].pc = "done" /\ reqs[i].op = "read" /\ reqs[i].status = 200) =>
            LET body == reqs[i].body
            IN  /\ Len(body.topicKeywords) <= 20
                /\ \A q \in DOMAIN Questions :
                       (\E k \in DOMAIN body.topicKeywords :
                            \E w \in DOMAIN QuestionKeywords(Questions[q]) :
                                body.topicKeywords[k]
                                    = QuestionKeywords(Questions[q])[w])
                       => \E h \in DOMAIN body.history :
                              body.history[h].question = q

=============================================================================
